---------------------------- MODULE Spec2Model ----------------------------
(***************************************************************************)
(* The block store (src/app/blockStore.ts) and the pivot-table page        *)
(* (src/app/page.tsx).  A Block is a record                                *)
(*   [id, label, parentId, children]                                       *)
(* with parentId a string or NULL and children a sequence of ids.  Each    *)
(* axis is a flat list (sequence) of Blocks.                               *)
(***************************************************************************)
EXTENDS Integers, Sequences, FiniteSets, TLC

VARIABLES rowBlocks, columnBlocks, lastOutcome, addCalls, appRowBlocks, appColBlocks, rendered

storeVars == <<rowBlocks, columnBlocks, lastOutcome, addCalls>>
appVars == <<appRowBlocks, appColBlocks, rendered>>
vars == <<rowBlocks, columnBlocks, lastOutcome, addCalls, appRowBlocks, appColBlocks, rendered>>

\* parentId of a root (null in the source)
NULL == "null"

\* ---------------------------------------------------------------- bounds
\* number of addBlock calls explored in one behaviour
MaxAdds == 1
\* largest generated tree handed to the page helpers
MaxNodes == 5

\* ------------------------------------------------------- array primitives
Min(a, b) == IF a < b THEN a ELSE b
Max(a, b) == IF a > b THEN a ELSE b

\* Array.prototype.indexOf: 0-based index of the first occurrence, or -1
indexOf(arr, x) ==
    LET at == {i \in 1..Len(arr) : arr[i] = x}
    IN IF at = {} THEN -1 ELSE (CHOOSE i \in at : \A j \in at : i <= j) - 1

\* Array.prototype.splice(start, deleteCount, ...items), the array afterwards.
\* A negative start counts from the end; start and deleteCount are clamped.
splice(arr, start, deleteCount, items) ==
    LET len == Len(arr)
        s == IF start < 0 THEN Max(len + start, 0) ELSE Min(start, len)
        d == Min(Max(deleteCount, 0), len - s)
    IN SubSeq(arr, 1, s) \o items \o SubSeq(arr, s + d + 1, len)

\* Array.prototype.findIndex(b => b.id === id): 0-based, or -1
findIndex(blocks, id) ==
    LET at == {i \in 1..Len(blocks) : blocks[i].id = id}
    IN IF at = {} THEN -1 ELSE (CHOOSE i \in at : \A j \in at : i <= j) - 1

\* ------------------------------------------------------------ store state
StoreRowBlocks == <<
    [id |-> "ROW_ROOT", label |-> "RowRoot", parentId |-> NULL, children |-> <<"ROW_A", "ROW_B">>],
    [id |-> "ROW_A", label |-> "Row-A", parentId |-> "ROW_ROOT", children |-> <<"ROW_A1", "ROW_A2">>],
    [id |-> "ROW_B", label |-> "Row-B", parentId |-> "ROW_ROOT", children |-> <<"ROW_B1">>],
    [id |-> "ROW_A1", label |-> "row-a1", parentId |-> "ROW_A", children |-> <<>>],
    [id |-> "ROW_A2", label |-> "row-a2", parentId |-> "ROW_A", children |-> <<>>],
    [id |-> "ROW_B1", label |-> "row-b1", parentId |-> "ROW_B", children |-> <<>>] >>

StoreColumnBlocks == <<
    [id |-> "COL_ROOT", label |-> "ColRoot", parentId |-> NULL, children |-> <<"COL_X", "COL_Y">>],
    [id |-> "COL_X", label |-> "Col-X", parentId |-> "COL_ROOT", children |-> <<"X1", "X2">>],
    [id |-> "COL_Y", label |-> "Col-Y", parentId |-> "COL_ROOT", children |-> <<"Y1">>],
    [id |-> "X1", label |-> "x1", parentId |-> "COL_X", children |-> <<>>],
    [id |-> "X2", label |-> "x2", parentId |-> "COL_X", children |-> <<>>],
    [id |-> "Y1", label |-> "y1", parentId |-> "COL_Y", children |-> <<>>] >>

Axes == {"row", "column"}

\* the store's two lists as one value (the draft handed to a set() recipe)
State == [rowBlocks |-> rowBlocks, columnBlocks |-> columnBlocks]

\* const blocks = axis === "row" ? state.rowBlocks : state.columnBlocks
AxisBlocks(state, axis) == IF axis = "row" THEN state.rowBlocks ELSE state.columnBlocks

\* `blocks` aliases the chosen list of the draft: what the recipe did to it is
\* what the store holds for that axis afterwards; the other list is untouched.
WithAxisBlocksRowOnly(state, axis, blocks) == [state EXCEPT !.rowBlocks = blocks]

WithAxisBlocks(state, axis, blocks) ==
    IF axis = "row" THEN [state EXCEPT !.rowBlocks = blocks]
    ELSE [state EXCEPT !.columnBlocks = blocks]

\* ------------------------------------------------------------ reorderBlock
reorderBlockNoRemove(state, axis, parentId, activeId, overId) ==
    LET blocks == AxisBlocks(state, axis)
        p == findIndex(blocks, parentId)
    IN IF p = -1 THEN state
       ELSE LET children == blocks[p + 1].children
                from == indexOf(children, activeId)
                to == indexOf(children, overId)
            IN IF from = -1 \/ to = -1 THEN state
               ELSE WithAxisBlocks(state, axis,
                        [blocks EXCEPT ![p + 1].children = splice(children, to, 0, <<activeId>>)])

reorderBlock(state, axis, parentId, activeId, overId) ==
    LET blocks == AxisBlocks(state, axis)
        p == findIndex(blocks, parentId)
    IN IF p = -1 THEN state
       ELSE LET children == blocks[p + 1].children
                from == indexOf(children, activeId)
                to == indexOf(children, overId)
            IN IF from = -1 \/ to = -1 THEN state
               ELSE WithAxisBlocks(state, axis,
                        [blocks EXCEPT ![p + 1].children =
                            splice(splice(children, from, 1, <<>>), to, 0, <<activeId>>)])

\* ------------------------------------------------------------- updateLabel
updateLabel(state, axis, id, label) ==
    LET blocks == AxisBlocks(state, axis)
        i == findIndex(blocks, id)
    IN IF i = -1 THEN state
       ELSE WithAxisBlocks(state, axis, [blocks EXCEPT ![i + 1].label = label])

\* ---------------------------------------------------------------- addBlock
addBlockUnshift(state, axis, parentId, block) ==
    LET blocks == AxisBlocks(state, axis)
        p == findIndex(blocks, parentId)
    IN IF p = -1 THEN state
       ELSE WithAxisBlocks(state, axis,
                Append([blocks EXCEPT ![p + 1].children = <<block.id>> \o @], block))

addBlockOrphan(state, axis, parentId, block) ==
    LET blocks == AxisBlocks(state, axis)
        p == findIndex(blocks, parentId)
    IN IF p = -1 THEN WithAxisBlocks(state, axis, Append(blocks, block))
       ELSE WithAxisBlocks(state, axis,
                Append([blocks EXCEPT ![p + 1].children = Append(@, block.id)], block))

addBlock(state, axis, parentId, block) ==
    LET blocks == AxisBlocks(state, axis)
        p == findIndex(blocks, parentId)
    IN IF p = -1 THEN state
       ELSE WithAxisBlocks(state, axis,
                Append([blocks EXCEPT ![p + 1].children = Append(@, block.id)], block))

\* ------------------------------------------------------------- removeBlock
\* Step 1: if (block.parentId) parent?.children.splice(parent.children.indexOf(id), 1)
\* indexOf may answer -1, and splice(-1, 1) then drops the parent's last child.
removeFromParent(blocks, id) ==
    LET block == blocks[findIndex(blocks, id) + 1]
        p == findIndex(blocks, block.parentId)
    IN IF block.parentId = NULL \/ block.parentId = "" \/ p = -1 THEN blocks
       ELSE [blocks EXCEPT ![p + 1].children = splice(@, indexOf(@, id), 1, <<>>)]

\* Step 2: dfs(bid) adds bid and recurses into the children of the first block
\* named bid, with no visited check.  On a cycle the recursion never ends and
\* the engine throws RangeError; a call chain longer than the list has blocks
\* (plus one dangling id at its end) has met a cycle.
RECURSIVE dfs(_, _, _)
dfs(blocks, bid, depth) ==
    LET i == findIndex(blocks, bid)
    IN IF depth > Len(blocks) + 1 THEN [ids |-> {bid}, overflow |-> TRUE]
       ELSE IF i = -1 THEN [ids |-> {bid}, overflow |-> FALSE]
       ELSE LET ch == blocks[i + 1].children
                sub == {dfs(blocks, ch[k], depth + 1) : k \in 1..Len(ch)}
            IN [ids |-> {bid} \cup UNION {s.ids : s \in sub},
                overflow |-> \E s \in sub : s.overflow]

\* the backwards loop: blocks.splice(i, 1) for every block whose id was collected
RECURSIVE withoutIds(_, _)
withoutIds(blocks, removeIds) ==
    IF blocks = <<>> THEN <<>>
    ELSE LET rest == withoutIds(SubSeq(blocks, 1, Len(blocks) - 1), removeIds)
             b == blocks[Len(blocks)]
         IN IF b.id \in removeIds THEN rest ELSE Append(rest, b)

\* whether removeBlock(axis, id) ends in an uncaught RangeError
removeBlockThrows(state, axis, id) ==
    LET blocks == AxisBlocks(state, axis)
    IN /\ findIndex(blocks, id) # -1
       /\ dfs(removeFromParent(blocks, id), id, 1).overflow

\* When the recipe throws, immer discards the draft: the store is unchanged.
removeBlock(state, axis, id) ==
    LET blocks == AxisBlocks(state, axis)
    IN IF findIndex(blocks, id) = -1 THEN state
       ELSE LET detached == removeFromParent(blocks, id)
                collected == dfs(detached, id, 1)
            IN IF collected.overflow THEN state
               ELSE WithAxisBlocks(state, axis, withoutIds(detached, collected.ids))

\* ------------------------------------------------------------ store calls
NewId(axis) == IF axis = "row" THEN "ROW_NEW" ELSE "COL_NEW"
InitialBlocks(axis) == IF axis = "row" THEN StoreRowBlocks ELSE StoreColumnBlocks
RootId(axis) == InitialBlocks(axis)[1].id
GroupId(axis) == InitialBlocks(axis)[2].id
OtherGroupId(axis) == InitialBlocks(axis)[3].id
LeafId(axis) == InitialBlocks(axis)[4].id

\* every id of the axis's initial tree and one id that is on neither axis at
\* the start
AxisIds(axis) == {InitialBlocks(axis)[i].id : i \in 1..Len(InitialBlocks(axis))} \cup {NewId(axis)}

\* the arguments the calls are made with
ReorderParents(axis) == {RootId(axis), NewId(axis)}
ReorderIds(axis) == {GroupId(axis), OtherGroupId(axis), LeafId(axis), NewId(axis)}
ReorderActive(axis) == {GroupId(axis), NewId(axis)}
LabelIds(axis) == {NewId(axis)}
LabelInputs == {"renamed"}
AddParents(axis) == {RootId(axis)}
RemoveIds(axis) == {RootId(axis), GroupId(axis), NewId(axis)}
\* nodes handed to addBlock: a fresh leaf naming the parent it is put under, a
\* fresh leaf naming another parent, a fresh node listing itself as its child,
\* and a parentless node whose id is already in the initial tree
BlockInputs(axis, parentId) ==
    { [id |-> NewId(axis), label |-> "new", parentId |-> parentId, children |-> <<>>],
      [id |-> NewId(axis), label |-> "new", parentId |-> OtherGroupId(axis), children |-> <<>>],
      [id |-> NewId(axis), label |-> "new", parentId |-> parentId, children |-> <<NewId(axis)>>],
      [id |-> LeafId(axis), label |-> "new", parentId |-> NULL, children |-> <<>>] }

\* how the last call ended: "applied", "noop" (the recipe returned early or
\* changed nothing) or "threw"; "create" before the first call
Outcome(before, after, threw) ==
    IF threw THEN "threw" ELSE IF after = before THEN "noop" ELSE "applied"

Commit(state) ==
    /\ rowBlocks' = state.rowBlocks
    /\ columnBlocks' = state.columnBlocks

StoreInit ==
    /\ rowBlocks = StoreRowBlocks
    /\ columnBlocks = StoreColumnBlocks
    /\ lastOutcome = "create"
    /\ addCalls = 0

ReorderBlock ==
    \E axis \in Axes : \E parentId \in ReorderParents(axis) :
      \E activeId \in ReorderActive(axis), overId \in ReorderIds(axis) :
        LET after == reorderBlock(State, axis, parentId, activeId, overId)
        IN /\ Commit(after)
           /\ lastOutcome' = Outcome(State, after, FALSE)
           /\ UNCHANGED <<addCalls, appVars>>

UpdateLabel ==
    \E axis \in Axes : \E id \in LabelIds(axis), label \in LabelInputs :
        LET after == updateLabel(State, axis, id, label)
        IN /\ Commit(after)
           /\ lastOutcome' = Outcome(State, after, FALSE)
           /\ UNCHANGED <<addCalls, appVars>>

AddBlock ==
    /\ addCalls < MaxAdds
    /\ \E axis \in Axes : \E parentId \in AddParents(axis) : \E block \in BlockInputs(axis, parentId) :
        LET after == addBlock(State, axis, parentId, block)
        IN /\ Commit(after)
           /\ lastOutcome' = Outcome(State, after, FALSE)
           /\ addCalls' = addCalls + 1
           /\ UNCHANGED appVars

RemoveBlock ==
    \E axis \in Axes : \E id \in RemoveIds(axis) :
        LET after == removeBlock(State, axis, id)
        IN /\ Commit(after)
           /\ lastOutcome' = Outcome(State, after, removeBlockThrows(State, axis, id))
           /\ UNCHANGED <<addCalls, appVars>>

\* ------------------------------------------------------------------- page
\* initialRowBlocks / initialColBlocks of the page (its own copy of the trees)
initialRowBlocks == <<
    [id |-> "ROW_ROOT", label |-> "RowRoot", parentId |-> NULL, children |-> <<"ROW_A", "ROW_B">>],
    [id |-> "ROW_A", label |-> "Row-A", parentId |-> "ROW_ROOT", children |-> <<"ROW_A1", "ROW_A2">>],
    [id |-> "ROW_B", label |-> "Row-B", parentId |-> "ROW_ROOT", children |-> <<"ROW_B1", "ROW_B2">>],
    [id |-> "ROW_A1", label |-> "row-a1", parentId |-> "ROW_A", children |-> <<>>],
    [id |-> "ROW_A2", label |-> "row-a2", parentId |-> "ROW_A", children |-> <<>>],
    [id |-> "ROW_B1", label |-> "row-b1", parentId |-> "ROW_B", children |-> <<>>],
    [id |-> "ROW_B2", label |-> "row-b2", parentId |-> "ROW_B", children |-> <<>>] >>

initialColBlocks == <<
    [id |-> "COL_ROOT", label |-> "ColRoot", parentId |-> NULL, children |-> <<"COL_X", "COL_Y">>],
    [id |-> "COL_X", label |-> "Col-X", parentId |-> "COL_ROOT", children |-> <<"X1", "X2">>],
    [id |-> "COL_Y", label |-> "Col-Y", parentId |-> "COL_ROOT", children |-> <<"Y1", "Y2">>],
    [id |-> "X1", label |-> "x1", parentId |-> "COL_X", children |-> <<>>],
    [id |-> "X2", label |-> "x2", parentId |-> "COL_X", children |-> <<>>],
    [id |-> "Y1", label |-> "y1", parentId |-> "COL_Y", children |-> <<>>],
    [id |-> "Y2", label |-> "y2", parentId |-> "COL_Y", children |-> <<>>] >>

\* new Map(blocks.map(b => [b.id, b])): a later entry replaces an earlier one
buildMap(blocks) ==
    [id \in {blocks[i].id : i \in 1..Len(blocks)} |->
        blocks[CHOOSE i \in 1..Len(blocks) :
                   blocks[i].id = id /\ \A j \in (i + 1)..Len(blocks) : blocks[j].id # id]]

\* children.reduce((s, c) => s + leafCount(c, map), 0)
RECURSIVE leafCount(_, _)
leafCount(id, map) ==
    LET b == map[id]
        sum[k \in 0..Len(b.children)] ==
            IF k = 0 THEN 0 ELSE sum[k - 1] + leafCount(b.children[k], map)
    IN IF Len(b.children) = 0 THEN 1 ELSE sum[Len(b.children)]

\* children.flatMap(c => flattenLeaves(c, map))
RECURSIVE flattenLeavesReversed(_, _)
flattenLeavesReversed(id, map) ==
    LET b == map[id]
        flat[k \in 0..Len(b.children)] ==
            IF k = 0 THEN <<>> ELSE flattenLeavesReversed(b.children[k], map) \o flat[k - 1]
    IN IF Len(b.children) = 0 THEN <<id>> ELSE flat[Len(b.children)]

RECURSIVE flattenLeaves(_, _)
flattenLeaves(id, map) ==
    LET b == map[id]
        flat[k \in 0..Len(b.children)] ==
            IF k = 0 THEN <<>> ELSE flat[k - 1] \o flattenLeaves(b.children[k], map)
    IN IF Len(b.children) = 0 THEN <<id>> ELSE flat[Len(b.children)]

\* arrayMove of @dnd-kit/sortable as called by reorder: copy the array, take the
\* element at `from` out, put it back at `to` (a negative `to` counts from the end)
arrayMoveSwap(array, from, to) ==
    [i \in 1..Len(array) |->
        IF i = from + 1 THEN array[to + 1] ELSE IF i = to + 1 THEN array[from + 1] ELSE array[i]]

arrayMove(array, from, to) ==
    LET at == IF to < 0 THEN Len(array) + to ELSE to
        item == IF array = <<>> THEN "undefined"
                ELSE IF from < 0 THEN array[Max(Len(array) + from, 0) + 1]
                ELSE array[from + 1]
    IN splice(splice(array, from, 1, <<>>), at, 0, <<item>>)

\* reorder(blocks, aId, bId) of the page.  With both parentId null the source
\* reads map.get(null).children and throws; the page never makes that call
\* (one root per tree, and onDragEnd returns when active and over are equal).
reorder(blocks, aId, bId) ==
    LET map == buildMap(blocks)
    IN IF aId \notin DOMAIN map \/ bId \notin DOMAIN map THEN blocks
       ELSE IF map[aId].parentId # map[bId].parentId THEN blocks
       ELSE LET parent == map[map[aId].parentId]
                next == arrayMove(parent.children,
                                  indexOf(parent.children, aId),
                                  indexOf(parent.children, bId))
            IN [i \in 1..Len(blocks) |->
                   IF blocks[i].id = parent.id THEN [blocks[i] EXCEPT !.children = next]
                   ELSE blocks[i]]

\* String.prototype.startsWith
startsWith(s, prefix) == Len(s) >= Len(prefix) /\ SubSeq(s, 1, Len(prefix)) = prefix

\* what a render derives from the two trees: the second header row, the span
\* of each column group and the span of the row root
Render(rowB, colB) ==
    LET rowMap == buildMap(rowB)
        colMap == buildMap(colB)
        colGroups == colMap["COL_ROOT"].children
    IN [colLeaves |-> flattenLeaves("COL_ROOT", colMap),
        colSpan |-> [k \in 1..Len(colGroups) |-> leafCount(colGroups[k], colMap)],
        rowSpan |-> leafCount("ROW_ROOT", rowMap)]

\* ids the generated row trees are built from, root first
RowPool == <<"ROW_ROOT", "ROW_A", "ROW_B", "ROW_A1", "ROW_A2", "ROW_B1", "ROW_B2">>

\* the tree over the first n pool ids in which node i hangs under node par[i],
\* children listed in pool order
TreeOf(n, par) ==
    [i \in 1..n |->
        [id |-> RowPool[i],
         label |-> RowPool[i],
         parentId |-> IF i = 1 THEN NULL ELSE RowPool[par[i]],
         children |-> LET kids == {j \in 2..n : par[j] = i}
                          nth[k \in 0..Cardinality(kids)] ==
                              IF k = 0 THEN <<>>
                              ELSE Append(nth[k - 1],
                                     RowPool[CHOOSE j \in kids :
                                         Cardinality({m \in kids : m < j}) = k - 1])
                      IN nth[Cardinality(kids)]]]

\* every rooted tree of at most MaxNodes nodes, and the page's own row tree
TreeInputs ==
    {initialRowBlocks} \cup
    UNION {{TreeOf(n, par) : par \in {f \in [2..n -> 1..n] : \A i \in 2..n : f[i] < i}} :
              n \in 1..Min(MaxNodes, Len(RowPool))}

\* ids a drag can start or end on: every header cell but the two roots
DragIds(rowB, colB) ==
    ({rowB[i].id : i \in 1..Len(rowB)} \cup {colB[i].id : i \in 1..Len(colB)})
        \ {"ROW_ROOT", "COL_ROOT"}

PageInit ==
    /\ rowBlocks = StoreRowBlocks
    /\ columnBlocks = StoreColumnBlocks
    /\ lastOutcome = "create"
    /\ addCalls = 0
    /\ appRowBlocks \in TreeInputs
    /\ appColBlocks = initialColBlocks
    /\ rendered = Render(appRowBlocks, appColBlocks)

\* onDragEnd(e): active is the dragged cell, over the cell it was dropped on
\* (NULL when dropped on none)
OnDragEnd ==
    \E active \in DragIds(appRowBlocks, appColBlocks) :
      \E over \in DragIds(appRowBlocks, appColBlocks) \cup {NULL} :
        LET nextRow == IF over # NULL /\ active # over /\ startsWith(active, "ROW")
                       THEN reorder(appRowBlocks, active, over) ELSE appRowBlocks
            nextCol == IF over # NULL /\ active # over
                          /\ (startsWith(active, "COL") \/ startsWith(active, "X")
                              \/ startsWith(active, "Y"))
                       THEN reorder(appColBlocks, active, over) ELSE appColBlocks
        IN /\ appRowBlocks' = nextRow
           /\ appColBlocks' = nextCol
           /\ rendered' = Render(nextRow, nextCol)
           /\ UNCHANGED storeVars

\* -------------------------------------------------------- specifications
\* The page keeps its trees in its own useState and never reads the store, so
\* the two are separate machines: Spec runs the store with the page at rest,
\* PageSpec runs the page (from each tree of TreeInputs) with the store at rest.
Init ==
    /\ StoreInit
    /\ appRowBlocks = initialRowBlocks
    /\ appColBlocks = initialColBlocks
    /\ rendered = Render(appRowBlocks, appColBlocks)

Next == ReorderBlock \/ UpdateLabel \/ AddBlock \/ RemoveBlock

Spec == Init /\ [][Next]_vars

PageNext == OnDragEnd

PageSpec == PageInit /\ [][PageNext]_vars

\* ============================================================ properties
IdsOf(blocks) == {blocks[i].id : i \in 1..Len(blocks)}
IdSeq(blocks) == [i \in 1..Len(blocks) |-> blocks[i].id]
Elems(seq) == {seq[k] : k \in 1..Len(seq)}
Count(seq, x) == Cardinality({k \in 1..Len(seq) : seq[k] = x})
Without(seq, k) == SubSeq(seq, 1, k - 1) \o SubSeq(seq, k + 1, Len(seq))
RECURSIVE Filter(_, _)
Filter(seq, keep) ==
    IF seq = <<>> THEN <<>>
    ELSE IF Head(seq) \in keep THEN <<Head(seq)>> \o Filter(Tail(seq), keep)
    ELSE Filter(Tail(seq), keep)

\* ids reachable from the ids of S by following children references
ChildIds(blocks, S) ==
    UNION {{blocks[j].children[k] : k \in 1..Len(blocks[j].children)} :
              j \in {i \in 1..Len(blocks) : blocks[i].id \in S}}
RECURSIVE Descend(_, _)
Descend(blocks, S) ==
    LET T == S \cup ChildIds(blocks, S)
    IN IF T = S THEN S ELSE Descend(blocks, T)
\* the subtree rooted at id: id itself and everything below it
SubtreeIds(blocks, id) == Descend(blocks, {id})

Forest(blocks) ==
    /\ Cardinality({i \in 1..Len(blocks) : blocks[i].parentId = NULL}) = 1
    /\ \A i \in 1..Len(blocks) :
           blocks[i].parentId # NULL =>
               /\ Cardinality({j \in 1..Len(blocks) : Count(blocks[j].children, blocks[i].id) > 0}) = 1
               /\ \A j \in 1..Len(blocks) : Count(blocks[j].children, blocks[i].id) <= 1
    /\ \A i \in 1..Len(blocks) : blocks[i].id \notin Descend(blocks, ChildIds(blocks, {blocks[i].id}))

\* C1: in every reachable state each axis is a forest with exactly one root
\* (one node with parentId null), every non-root id sits in exactly one
\* children sequence exactly once, and children references form no cycle.
C1_ForestInvariant == \A axis \in Axes : Forest(AxisBlocks(State, axis))

\* C2: removeBlock(axis, id) for an id on the axis removes from the flat list
\* exactly the subtree of id, and the remaining nodes keep their order.
C2_RemovesExactlySubtree ==
    \A axis \in Axes : \A id \in IdsOf(AxisBlocks(State, axis)) :
        LET before == AxisBlocks(State, axis)
            after == AxisBlocks(removeBlock(State, axis, id), axis)
        IN IdSeq(after) = Filter(IdSeq(before), IdsOf(before) \ SubtreeIds(before, id))

\* C3: with activeId and overId both among the children of parentId,
\* reorderBlock leaves those children a permutation of what they were, with
\* activeId at the index overId had and the other children in their old order.
C3_ReorderIsMove ==
    \A axis \in Axes : \A parentId \in IdsOf(AxisBlocks(State, axis)) :
        LET blocks == AxisBlocks(State, axis)
            p == findIndex(blocks, parentId) + 1
            before == blocks[p].children
        IN \A a \in 1..Len(before), o \in 1..Len(before) :
            LET activeId == before[a]
                overId == before[o]
                from == indexOf(before, activeId)
                to == indexOf(before, overId)
                after == AxisBlocks(reorderBlock(State, axis, parentId, activeId, overId), axis)[p].children
            IN /\ Len(after) = Len(before)
               /\ \A k \in 1..Len(before) : Count(after, before[k]) = Count(before, before[k])
               /\ after[to + 1] = activeId
               /\ Without(after, to + 1) = Without(before, from + 1)

C3_Witness ==
    /\ lastOutcome = "applied"
    /\ Len(rowBlocks) > 0
    /\ rowBlocks[1].id = "ROW_ROOT"
    /\ rowBlocks[1].children = <<"ROW_NEW", "ROW_B", "ROW_A">>

\* C4: for a parent on the axis and a node whose id is not on it, addBlock
\* followed by removeBlock of that node restores every children sequence and
\* the set of nodes of the flat list.
C4_AddThenRemoveRestores ==
    \A axis \in Axes : \A parentId \in IdsOf(AxisBlocks(State, axis)) :
        \A node \in BlockInputs(axis, parentId) :
            node.id \notin IdsOf(AxisBlocks(State, axis)) =>
                LET before == AxisBlocks(State, axis)
                    after == AxisBlocks(removeBlock(addBlock(State, axis, parentId, node), axis, node.id), axis)
                IN {after[i] : i \in 1..Len(after)} = {before[i] : i \in 1..Len(before)}

\* ids the properties call the store with: both axes' ids, so that a call on
\* one axis is also made with the ids of the other
AllIds == AxisIds("row") \cup AxisIds("column")
OtherAxis(axis) == IF axis = "row" THEN "column" ELSE "row"
\* ids the properties call reorderBlock with, as parentId and as activeId or
\* overId; each set holds an id of the other axis
CallIds(axis) ==
    {RootId(axis), GroupId(axis), OtherGroupId(axis), LeafId(axis), NewId(axis), RootId(OtherAxis(axis))}
ChildCallIds(axis) == {GroupId(axis), LeafId(axis), NewId(axis), GroupId(OtherAxis(axis))}

\* C5: reorderBlock with parentId off the axis or activeId or overId not among
\* that parent's children, updateLabel with id off the axis, addBlock with
\* parentId off the axis and removeBlock with id off the axis change neither
\* list and do not throw.
C5_MissingIdIsNoOp ==
    \A axis \in Axes :
        LET blocks == AxisBlocks(State, axis)
            on == IdsOf(blocks)
        IN /\ \A parentId \in CallIds(axis), activeId \in ChildCallIds(axis), overId \in ChildCallIds(axis) :
                (\/ parentId \notin on
                 \/ indexOf(blocks[findIndex(blocks, parentId) + 1].children, activeId) = -1
                 \/ indexOf(blocks[findIndex(blocks, parentId) + 1].children, overId) = -1)
                    => reorderBlock(State, axis, parentId, activeId, overId) = State
           /\ \A id \in AllIds \ on :
                /\ \A label \in LabelInputs : updateLabel(State, axis, id, label) = State
                /\ \A block \in BlockInputs(axis, id) : addBlock(State, axis, id, block) = State
                /\ removeBlock(State, axis, id) = State
                /\ ~removeBlockThrows(State, axis, id)

C5_Witness ==
    /\ lastOutcome = "noop"
    /\ rowBlocks = <<>>
    /\ "COL_X" \notin IdsOf(columnBlocks)

\* C6: with parentId on the axis, addBlock appends node.id to that parent's
\* children and node to the flat list, and changes nothing else.
C6_AddAppends ==
    \A axis \in Axes : \A parentId \in IdsOf(AxisBlocks(State, axis)) :
      \A node \in BlockInputs(axis, parentId) :
        LET before == AxisBlocks(State, axis)
            after == AxisBlocks(addBlock(State, axis, parentId, node), axis)
            p == findIndex(before, parentId) + 1
        IN /\ Len(after) = Len(before) + 1
           /\ after[Len(after)] = node
           /\ after[p] = [before[p] EXCEPT !.children = before[p].children \o <<node.id>>]
           /\ \A i \in 1..Len(before) : i # p => after[i] = before[i]

C6_Witness ==
    /\ lastOutcome = "applied"
    /\ Len(columnBlocks) = 7
    /\ columnBlocks[7] = [id |-> "COL_NEW", label |-> "new", parentId |-> "COL_ROOT", children |-> <<>>]
    /\ columnBlocks[1].children = <<"COL_Y", "COL_X", "COL_NEW">>

\* C7: a call with axis "row" leaves columnBlocks as it was and a call with
\* axis "column" leaves rowBlocks as it was, whatever the arguments.
C7_AxesIndependent ==
    \A axis \in Axes :
        LET other == AxisBlocks(State, OtherAxis(axis))
        IN /\ \A parentId \in ReorderParents(axis), activeId \in ReorderActive(axis), overId \in ReorderIds(axis) :
                    AxisBlocks(reorderBlock(State, axis, parentId, activeId, overId), OtherAxis(axis)) = other
           /\ \A id \in AllIds :
                /\ \A label \in LabelInputs :
                      AxisBlocks(updateLabel(State, axis, id, label), OtherAxis(axis)) = other
                /\ \A block \in BlockInputs(axis, id) :
                      AxisBlocks(addBlock(State, axis, id, block), OtherAxis(axis)) = other
                /\ AxisBlocks(removeBlock(State, axis, id), OtherAxis(axis)) = other

C7_Witness ==
    /\ lastOutcome = "applied"
    /\ columnBlocks = StoreColumnBlocks
    /\ IdSeq(rowBlocks) = <<"ROW_ROOT", "ROW_B", "ROW_B1", "ROW_NEW">>

\* C8: removeBlock(axis, id) for a non-root id on the axis changes children
\* sequences only by taking id out of the children of the node its parentId
\* names, and afterwards no children sequence holds id or an id that is not in
\* the flat list.
C8_RemoveDetachesOnlyId ==
    \A axis \in Axes : \A id \in IdsOf(AxisBlocks(State, axis)) :
        LET before == AxisBlocks(State, axis)
            node == before[findIndex(before, id) + 1]
            after == AxisBlocks(removeBlock(State, axis, id), axis)
        IN node.parentId # NULL =>
            /\ \A j \in 1..Len(after) :
                 \E i \in 1..Len(before) :
                    /\ before[i].id = after[j].id
                    /\ after[j].children =
                         IF after[j].id = node.parentId
                         THEN Filter(before[i].children, Elems(before[i].children) \ {id})
                         ELSE before[i].children
            /\ \A j \in 1..Len(after) : \A k \in 1..Len(after[j].children) :
                 /\ after[j].children[k] # id
                 /\ after[j].children[k] \in IdsOf(after)

\* the two trees the page holds
PageTrees == {appRowBlocks, appColBlocks}

\* `out` lists, without repeats, the childless nodes of the subtree of id, and
\* of any two of them the one listed first lies under the earlier child of
\* the node where their paths part
LeavesInOrder(out, id, blocks) ==
    LET map == buildMap(blocks)
        under == SubtreeIds(blocks, id)
    IN /\ Elems(out) = {n \in under : map[n].children = <<>>}
       /\ Len(out) = Cardinality(Elems(out))
       /\ \A i \in 1..Len(out), j \in 1..Len(out) :
            i < j =>
                \E n \in under : \E k \in 1..Len(map[n].children), l \in 1..Len(map[n].children) :
                    /\ k < l
                    /\ out[i] \in SubtreeIds(blocks, map[n].children[k])
                    /\ out[j] \in SubtreeIds(blocks, map[n].children[l])

\* C9: for every node id of a well-formed tree, leafCount(id, map) is the
\* length of flattenLeaves(id, map), and flattenLeaves lists exactly the
\* childless nodes of the subtree of id in left-to-right children order.
C9_LeafCountMatchesFlatten ==
    \A blocks \in PageTrees : \A id \in IdsOf(blocks) :
        /\ leafCount(id, buildMap(blocks)) = Len(flattenLeaves(id, buildMap(blocks)))
        /\ LeavesInOrder(flattenLeaves(id, buildMap(blocks)), id, blocks)

C9_Witness ==
    /\ rendered.colLeaves = <<"Y2", "Y1", "X1", "X2">>
    /\ rendered.colSpan = <<2, 2>>
    /\ rendered.rowSpan = 3
    /\ Len(appRowBlocks) = 5

\* C10: for ids a and b on the tree with the same parent P, reorder gives P
\* the children reorderBlock(axis, P, a, b) gives it and leaves every other
\* node as it was; with a or b off the tree or with different parentId values
\* reorder returns the list as it was.
C10_ReorderAgreesWithStore ==
    \A blocks \in PageTrees :
      \A a \in IdsOf(appRowBlocks) \cup IdsOf(appColBlocks), b \in IdsOf(appRowBlocks) \cup IdsOf(appColBlocks) :
        LET map == buildMap(blocks)
            on == a \in IdsOf(blocks) /\ b \in IdsOf(blocks)
        IN IF ~on THEN reorder(blocks, a, b) = blocks
           ELSE IF map[a].parentId # map[b].parentId THEN reorder(blocks, a, b) = blocks
           ELSE map[a].parentId # NULL =>
                LET P == map[a].parentId
                    viaStore == reorderBlock([rowBlocks |-> blocks, columnBlocks |-> <<>>],
                                             "row", P, a, b).rowBlocks
                    viaPage == reorder(blocks, a, b)
                IN /\ Len(viaPage) = Len(blocks)
                   /\ \A i \in 1..Len(blocks) :
                        IF blocks[i].id = P
                        THEN viaPage[i] = [blocks[i] EXCEPT !.children = viaStore[i].children]
                        ELSE viaPage[i] = blocks[i]

C10_Witness ==
    /\ Len(appRowBlocks) = 4
    /\ appRowBlocks[1].children = <<"ROW_B", "ROW_A1", "ROW_A">>

=============================================================================
